---- MODULE Spec2Model ----
(***************************************************************************)
(* Model of tsc-ext: the extension-aware compiler host (ExtCompilerHost),  *)
(* the extension loader and the pipeline orchestrator (main) of            *)
(* src/index.ts, with the DelegatingHost of delegating_host.ts.            *)
(*                                                                         *)
(* Text is a sequence of characters, a file name a sequence of its         *)
(* dot-separated parts (<<"lib","d","ts">> is lib.d.ts), a path a sequence *)
(* of its segments.  The TypeScript engine and the extensions are external *)
(* collaborators: what they return is an input, drawn from small sets.     *)
(***************************************************************************)
EXTENDS Integers, Sequences, FiniteSets, TLC

\* ------------------------------------------------------------------ bounds

\* Longest extension list a configuration declares.
MaxExt == 2
\* Number of calls the engine makes on the host in the host specification.
MaxCalls == 2

\* ------------------------------------------------------------------ values

Undefined == [kind |-> "undefined"]

\* A call that raised an error instead of returning.
Thrown == [kind |-> "thrown"]

\* The value undefined where a text is expected: no sequence of characters.
UndefinedText == <<"undefined">>

\* The value of ExtCompilerHost.program: unset until main assigns it.
NoProgram == "undefined"
TheProgram == "program"

\* ------------------------------------------------------------------ text

RECURSIVE Reverse(_)
Reverse(s) == IF s = <<>> THEN <<>> ELSE Append(Reverse(Tail(s)), Head(s))

UpperChar(c) == CASE c = "x" -> "X" [] c = "y" -> "Y" [] OTHER -> c

ToUpper(s) == [i \in 1..Len(s) |-> UpperChar(s[i])]

Truncate(s, n) == IF Len(s) <= n THEN s ELSE SubSeq(s, 1, n)

\* ------------------------------------------------------------------ the base file system and host

\* The source files the base host can read, with their text.
SourceFiles == {<<"a", "ts">>, <<"b", "ts">>, <<"lib", "d", "ts">>, <<"d", "ts">>}

SourceText(f) ==
  CASE f = <<"a", "ts">> -> <<"x", "y">>
    [] f = <<"b", "ts">> -> <<"y">>
    [] f = <<"lib", "d", "ts">> -> <<"x">>
    [] OTHER -> <<>>

\* ts.createSourceFile(fileName, text, languageVersion, setParentNodes)
CreateSourceFile(fileName, text, setParentNodes) ==
  [kind |-> "sourceFile", fileName |-> fileName, text |-> text,
   setParentNodes |-> setParentNodes]

\* File names the base host finds nothing under.
MissingFiles == {<<"gone", "ts">>, <<"gone", "d", "ts">>}

\* delegate.fileExists
DelegateFileExists(f) == f \in SourceFiles

\* delegate.readFile: undefined for a file that does not exist
DelegateReadFile(f) == IF DelegateFileExists(f) THEN SourceText(f) ELSE UndefinedText

\* delegate.getSourceFile, of the host ts.createCompilerHost(options, true): undefined
\* for a file that does not exist
DelegateGetSourceFile(f) ==
  IF DelegateReadFile(f) # UndefinedText
  THEN CreateSourceFile(f, DelegateReadFile(f), TRUE)
  ELSE Undefined

\* ------------------------------------------------------------------ extensions

Absent == [kind |-> "absent"]

\* The diagnostics extensions and the engine report.
Diag(id, anchored) ==
  [category |-> "Error", messageText |-> id,
   file |-> IF anchored THEN <<"a", "ts">> ELSE <<>>,
   line |-> IF anchored THEN 0 ELSE -1,
   character |-> IF anchored THEN 2 ELSE -1]

\* A line written to the console: a category, a position (none here) and a text.
Line(category, text) == [category |-> category, at |-> <<>>, text |-> text]

\* The npm modules a descriptor can name; "M" is not installed.
Modules == {"A", "B", "C", "D", "E", "S", "P", "M"}

Installed(module) == module # "M"

\* require(module).default: the hooks the module provides.
\*   A: preProcess (one diagnostic), postProcess (upper case), codegen
\*   B: preProcess (no diagnostic), postProcess (reverse), codegen, check
\*   C: preProcess (two diagnostics), postProcess (upper case), codegen
\*   D: codegen, check that ends the process
\*   E: postProcess (truncate), check that raises an error
\*   S: preProcess that reads the program it is given (no diagnostic)
\*   P: postProcess that raises an error, check
RequireDefault(module) ==
  CASE module = "A" ->
         [preProcess |-> [kind |-> "append", mark |-> <<"A">>,
                          diagnostics |-> <<Diag("dA", TRUE)>>],
          postProcess |-> [kind |-> "upper"],
          codegen |-> [kind |-> "write",
                       writes |-> <<[filename |-> <<"sub", "g.ts">>, source |-> <<"x">>]>>],
          check |-> Absent]
    [] module = "B" ->
         [preProcess |-> [kind |-> "append", mark |-> <<"B">>, diagnostics |-> <<>>],
          postProcess |-> [kind |-> "reverse"],
          codegen |-> [kind |-> "write",
                       writes |-> <<[filename |-> <<"n.ts">>, source |-> <<"x", "y">>]>>],
          check |-> [kind |-> "ok"]]
    [] module = "C" ->
         [preProcess |-> [kind |-> "append", mark |-> <<"C">>,
                          diagnostics |-> <<Diag("dC1", FALSE), Diag("dC2", TRUE)>>],
          postProcess |-> [kind |-> "upper"],
          codegen |-> [kind |-> "write",
                       writes |-> <<[filename |-> <<"..", "h.ts">>, source |-> <<"y">>],
                                    [filename |-> <<"k.ts">>, source |-> <<"x", "y">>]>>],
          check |-> Absent]
    [] module = "D" ->
         [preProcess |-> Absent,
          postProcess |-> Absent,
          codegen |-> [kind |-> "write",
                       writes |-> <<[filename |-> <<"m.ts">>, source |-> <<"y">>]>>],
          check |-> [kind |-> "exit"]]
    [] module = "S" ->
         [preProcess |-> [kind |-> "needsProgram", mark |-> <<"S">>, diagnostics |-> <<>>],
          postProcess |-> Absent,
          codegen |-> Absent,
          check |-> Absent]
    [] module = "P" ->
         [preProcess |-> Absent,
          postProcess |-> [kind |-> "raise"],
          codegen |-> Absent,
          check |-> [kind |-> "ok"]]
    [] OTHER ->
         [preProcess |-> Absent,
          postProcess |-> [kind |-> "truncate"],
          codegen |-> Absent,
          check |-> [kind |-> "throw"]]

\* The configuration bag the descriptor gives a module; an empty genDir is unset.
ConfigOptions(module) ==
  CASE module = "A" -> [genDir |-> <<"gen">>]
    [] module = "D" -> [genDir |-> <<"..", "out2">>]
    [] OTHER -> [genDir |-> <<>>]

\* The extension blocks of a descriptor: ordered keys, no key twice.
ExtensionKeys ==
  UNION {{s \in [1..n -> Modules] : \A i, j \in 1..n : i # j => s[i] # s[j]} : n \in 0..MaxExt}

\* the loop of load given up at the first module that fails to load
RECURSIVE LoadEach_StopAtFailure(_, _)
LoadEach_StopAtFailure(keys, st) ==
  IF keys = <<>> THEN st
  ELSE LET extension == Head(keys)
       IN IF Installed(extension)
          THEN LoadEach_StopAtFailure(Tail(keys),
                 [result |-> Append(st.result,
                     [name |-> extension,
                      loadPath |-> <<"node_modules", extension>>,
                      options |-> ConfigOptions(extension),
                      preProcess |-> RequireDefault(extension).preProcess,
                      postProcess |-> RequireDefault(extension).postProcess,
                      codegen |-> RequireDefault(extension).codegen,
                      check |-> RequireDefault(extension).check]),
                  log |-> st.log])
          ELSE [result |-> st.result,
                log |-> Append(st.log, [op |-> "console.error", tag |-> "Unable to load",
                                        text |-> <<Line("Warning", extension)>>])]

\* load (src/index.ts:138): st is [result, log]
RECURSIVE LoadEach(_, _)
LoadEach(keys, st) ==
  IF keys = <<>> THEN st
  ELSE LET extension == Head(keys)
       IN LoadEach(Tail(keys),
            IF Installed(extension)
            THEN [result |-> Append(st.result,
                     [name |-> extension,
                      loadPath |-> <<"node_modules", extension>>,
                      options |-> ConfigOptions(extension),
                      preProcess |-> RequireDefault(extension).preProcess,
                      postProcess |-> RequireDefault(extension).postProcess,
                      codegen |-> RequireDefault(extension).codegen,
                      check |-> RequireDefault(extension).check]),
                  log |-> st.log]
            ELSE [result |-> st.result,
                  log |-> Append(st.log, [op |-> "console.error", tag |-> "Unable to load",
                                          text |-> <<Line("Warning", extension)>>])])

\* extensionsCfg is Undefined or the ordered keys of the block.
Load(extensionsCfg, l) ==
  LET called == Append(l, [op |-> "load", extensionsCfg |-> extensionsCfg])
  IN IF extensionsCfg = Undefined THEN [result |-> <<>>, log |-> called]
     ELSE LoadEach(extensionsCfg.keys, [result |-> <<>>, log |-> called])

ExtensionsCfgs == {Undefined} \cup {[kind |-> "block", keys |-> k] : k \in ExtensionKeys}

\* ------------------------------------------------------------------ state

VARIABLES
  pc,               \* position of the run: a step of main, "host" or "exited"
  extensions,       \* ExtCompilerHost.extensions / main's extensions
  hostProgram,      \* ExtCompilerHost.program
  hostDiagnostics,  \* ExtCompilerHost.diagnostics
  reverseMap,       \* ExtCompilerHost.reverseMap
  lastResult,       \* what the last host call returned
  log,              \* every call made on a collaborator, in order
  calls,            \* number of host calls made by the engine
  basePath,         \* main's basePath
  options,          \* parsed.options
  units,            \* program.getSourceFiles()
  todo,             \* what the loop main is in has left to visit
  diagnostics,      \* main's diagnostics array
  failed,           \* main's failed flag
  fsys,             \* the directories and files codegen writes to
  mainResult,       \* what main returned
  exitCode          \* the exit code of the process

hostVars == <<extensions, hostProgram, hostDiagnostics, reverseMap, lastResult, log, calls>>

mainVars == <<basePath, options, units, todo, diagnostics, failed, fsys, mainResult, exitCode>>

vars == <<pc, hostVars, mainVars>>

EmptyMap == [p \in {} |-> p]

\* ------------------------------------------------------------------ enabled (src/index.ts:70)

\* !!ext[extensionPoint]
Enabled(extensionPoint, ext) == ext[extensionPoint].kind # "absent"

FilterEnabled(exts, extensionPoint) == SelectSeq(exts, LAMBDA ext : Enabled(extensionPoint, ext))

\* ------------------------------------------------------------------ getSourceFile (src/index.ts:111)

\* the test recognising the engine's library file alone
IsDefinitions_LibOnly(fileName) == fileName = <<"lib", "d", "ts">>

\* /\.d\.ts$/.test(fileName)
IsDefinitions(fileName) ==
  /\ Len(fileName) >= 3
  /\ fileName[Len(fileName) - 1] = "d"
  /\ fileName[Len(fileName)] = "ts"

\* An extension's preProcess hook raises an error when it is given no unit, or reads
\* the program while the host has none.
PreProcessRaises(ext, program, sourceFile) ==
  \/ sourceFile = Undefined
  \/ ext.preProcess.kind = "needsProgram" /\ program = NoProgram

\* An extension's preProcess hook: appends its marker to the text of the unit it is given.
PreProcessHook(ext, program, sourceFile) ==
  [content |-> sourceFile.text \o ext.preProcess.mark,
   diagnostics |-> ext.preProcess.diagnostics]

\* the accumulator replaced by the latest extension's diagnostics
PushDiagnostics_Replace(acc, more) == more

\* this.diagnostics.push(...result.diagnostics)
PushDiagnostics(acc, more) == acc \o more

\* the forEach handing each hook the unit with the content the hook before it returned
RECURSIVE PreProcessEach_Chained(_, _, _, _)
PreProcessEach_Chained(exts, program, sourceFile, st) ==
  IF exts = <<>> \/ st.thrown THEN st
  ELSE LET ext == Head(exts)
           called == Append(st.log, [op |-> "preProcess", ext |-> ext.name,
                                     program |-> program, sourceFile |-> sourceFile])
       IN IF PreProcessRaises(ext, program, sourceFile)
          THEN [content |-> st.content, diagnostics |-> st.diagnostics,
                log |-> Append(called, [op |-> "throw", from |-> "preProcess",
                                        ext |-> ext.name]),
                thrown |-> TRUE]
          ELSE LET result == PreProcessHook(ext, program, sourceFile)
               IN PreProcessEach_Chained(Tail(exts), program,
                    [sourceFile EXCEPT !.text = result.content],
                    [content |-> result.content,
                     diagnostics |-> PushDiagnostics(st.diagnostics, result.diagnostics),
                     log |-> called,
                     thrown |-> FALSE])

\* The forEach of getSourceFile over the preProcess-enabled extensions; st is
\* [content, diagnostics, log, thrown].  An error a hook raises ends the forEach.
RECURSIVE PreProcessEach(_, _, _, _)
PreProcessEach(exts, program, sourceFile, st) ==
  IF exts = <<>> \/ st.thrown THEN st
  ELSE LET ext == Head(exts)
           called == Append(st.log, [op |-> "preProcess", ext |-> ext.name,
                                     program |-> program, sourceFile |-> sourceFile])
       IN IF PreProcessRaises(ext, program, sourceFile)
          THEN [content |-> st.content, diagnostics |-> st.diagnostics,
                log |-> Append(called, [op |-> "throw", from |-> "preProcess",
                                        ext |-> ext.name]),
                thrown |-> TRUE]
          ELSE LET result == PreProcessHook(ext, program, sourceFile)
               IN PreProcessEach(Tail(exts), program, sourceFile,
                    [content |-> result.content,
                     diagnostics |-> PushDiagnostics(st.diagnostics, result.diagnostics),
                     log |-> called,
                     thrown |-> FALSE])

\* What ts.createSourceFile can do with a text: return the parsed unit; on an
\* undefined text it raises an error or returns a unit without text, depending on
\* the engine.
CreateSourceFileOutcomes(fileName, content) ==
  IF content = UndefinedText
  THEN {Thrown, CreateSourceFile(fileName, UndefinedText, TRUE)}
  ELSE {CreateSourceFile(fileName, content, TRUE)}

GetSourceFile(fileName) ==
  LET sourceFile == DelegateGetSourceFile(fileName)
      log1 == log \o <<[op |-> "call", method |-> "getSourceFile", fileName |-> fileName],
                       [op |-> "delegate.getSourceFile", fileName |-> fileName]>>
  IN IF IsDefinitions(fileName)
     THEN /\ lastResult' = sourceFile
          /\ log' = log1
          /\ UNCHANGED hostDiagnostics
     ELSE LET content == DelegateReadFile(fileName)
              log2 == Append(log1, [op |-> "readFile", fileName |-> fileName])
              st == PreProcessEach(FilterEnabled(extensions, "preProcess"), hostProgram,
                                   sourceFile,
                                   [content |-> content, diagnostics |-> hostDiagnostics,
                                    log |-> log2, thrown |-> FALSE])
              parsed == Append(st.log, [op |-> "createSourceFile", fileName |-> fileName,
                                        content |-> st.content])
          IN /\ hostDiagnostics' = st.diagnostics
             /\ IF st.thrown
                THEN /\ lastResult' = Thrown
                     /\ log' = st.log
                ELSE \E outcome \in CreateSourceFileOutcomes(fileName, st.content) :
                       /\ lastResult' = outcome
                       /\ log' = (IF outcome = Thrown
                                  THEN Append(parsed, [op |-> "throw",
                                                       from |-> "createSourceFile",
                                                       ext |-> "none"])
                                  ELSE parsed)

\* ------------------------------------------------------------------ writeFile (src/index.ts:128)

\* An extension's postProcess hook.
PostProcessHook(ext, fileName, content) ==
  CASE ext.postProcess.kind = "upper" -> ToUpper(content)
    [] ext.postProcess.kind = "reverse" -> Reverse(content)
    [] ext.postProcess.kind = "truncate" -> Truncate(content, 2)
    [] OTHER -> content

\* the postProcess hooks applied from the last extension to the first
RECURSIVE PostProcessEach_RightToLeft(_, _, _)
PostProcessEach_RightToLeft(exts, fileName, st) ==
  IF exts = <<>> \/ st.thrown THEN st
  ELSE LET ext == exts[Len(exts)]
           called == Append(st.log, [op |-> "postProcess", ext |-> ext.name,
                                     fileName |-> fileName, content |-> st.content])
       IN IF ext.postProcess.kind = "raise"
          THEN [content |-> st.content,
                log |-> Append(called, [op |-> "throw", from |-> "postProcess",
                                        ext |-> ext.name]),
                thrown |-> TRUE]
          ELSE PostProcessEach_RightToLeft(SubSeq(exts, 1, Len(exts) - 1), fileName,
                 [content |-> PostProcessHook(ext, fileName, st.content),
                  log |-> called, thrown |-> FALSE])

\* The forEach of writeFile over the postProcess-enabled extensions; st is
\* [content, log, thrown].  An error a hook raises ends the forEach.
RECURSIVE PostProcessEach(_, _, _)
PostProcessEach(exts, fileName, st) ==
  IF exts = <<>> \/ st.thrown THEN st
  ELSE LET ext == Head(exts)
           called == Append(st.log, [op |-> "postProcess", ext |-> ext.name,
                                     fileName |-> fileName, content |-> st.content])
       IN IF ext.postProcess.kind = "raise"
          THEN [content |-> st.content,
                log |-> Append(called, [op |-> "throw", from |-> "postProcess",
                                        ext |-> ext.name]),
                thrown |-> TRUE]
          ELSE PostProcessEach(Tail(exts), fileName,
                 [content |-> PostProcessHook(ext, fileName, st.content),
                  log |-> called, thrown |-> FALSE])

\* this.delegate.writeFile(fileName, content, writeByteOrderMark, onError)
DelegateWriteFile(fileName, content, writeByteOrderMark, onError) ==
  [op |-> "delegate.writeFile", fileName |-> fileName, content |-> content,
   writeByteOrderMark |-> writeByteOrderMark, onError |-> onError]

\* The log after ExtCompilerHost.writeFile has run on log l; it ends with the error
\* raised when a postProcess hook raised one, and the base host is then not called.
WriteFileLog(l, fileName, content, writeByteOrderMark, onError) ==
  LET log1 == Append(l, [op |-> "call", method |-> "writeFile", fileName |-> fileName,
                         content |-> content, writeByteOrderMark |-> writeByteOrderMark,
                         onError |-> onError])
      st == PostProcessEach(FilterEnabled(extensions, "postProcess"), fileName,
                            [content |-> content, log |-> log1, thrown |-> FALSE])
  IN IF st.thrown THEN st.log
     ELSE Append(st.log, DelegateWriteFile(fileName, st.content, writeByteOrderMark, onError))

\* The log ends with an error raised and not yet caught.
Raised(l) == l # <<>> /\ l[Len(l)].op = "throw"

WriteFile(fileName, content, writeByteOrderMark, onError) ==
  /\ log' = WriteFileLog(log, fileName, content, writeByteOrderMark, onError)
  /\ lastResult' = (IF Raised(log') THEN Thrown ELSE Undefined)

\* ------------------------------------------------------------------ resolveModuleNames (src/index.ts:98)

\* ts.resolveModuleName(moduleName, containingFile, options, delegate): the engine's
\* resolution.  "./a" and "a" resolve to the same file; "./c" resolves only from b.ts.
ResolveModuleName(moduleName, containingFile) ==
  CASE moduleName = "./a" -> [resolvedModule |-> [resolvedFileName |-> <<"a", "ts">>]]
    [] moduleName = "a" -> [resolvedModule |-> [resolvedFileName |-> <<"a", "ts">>]]
    [] moduleName = "./b" -> [resolvedModule |-> [resolvedFileName |-> <<"b", "ts">>]]
    [] moduleName = "./c" /\ containingFile = <<"b", "ts">> ->
         [resolvedModule |-> [resolvedFileName |-> <<"lib", "d", "ts">>]]
    [] OTHER -> [resolvedModule |-> Undefined]

\* the reverse map keeping the specifier a path was first reached by
SetReverse_KeepFirst(map, resolvedFileName, moduleName) ==
  [p \in DOMAIN map \cup {resolvedFileName} |->
     IF p \in DOMAIN map THEN map[p] ELSE moduleName]

\* this.reverseMap[resolvedFileName] = moduleName
SetReverse(map, resolvedFileName, moduleName) ==
  [p \in DOMAIN map \cup {resolvedFileName} |->
     IF p = resolvedFileName THEN moduleName ELSE map[p]]

\* the forEach keeping a slot for every specifier, resolved or not
RECURSIVE ResolveEach_KeepUnresolved(_, _, _)
ResolveEach_KeepUnresolved(moduleNames, containingFile, st) ==
  IF moduleNames = <<>> THEN st
  ELSE LET moduleName == Head(moduleNames)
           resolved == ResolveModuleName(moduleName, containingFile)
       IN ResolveEach_KeepUnresolved(Tail(moduleNames), containingFile,
            IF resolved.resolvedModule # Undefined
            THEN [result |-> Append(st.result, resolved.resolvedModule),
                  reverseMap |-> SetReverse(st.reverseMap,
                                            resolved.resolvedModule.resolvedFileName,
                                            moduleName)]
            ELSE [result |-> Append(st.result, Undefined),
                  reverseMap |-> st.reverseMap])

\* The forEach of resolveModuleNames; st is [result, reverseMap].
RECURSIVE ResolveEach(_, _, _)
ResolveEach(moduleNames, containingFile, st) ==
  IF moduleNames = <<>> THEN st
  ELSE LET moduleName == Head(moduleNames)
           resolved == ResolveModuleName(moduleName, containingFile)
       IN ResolveEach(Tail(moduleNames), containingFile,
            IF resolved.resolvedModule # Undefined
            THEN [result |-> Append(st.result, resolved.resolvedModule),
                  reverseMap |-> SetReverse(st.reverseMap,
                                            resolved.resolvedModule.resolvedFileName,
                                            moduleName)]
            ELSE st)

ResolveModuleNames(moduleNames, containingFile) ==
  LET st == ResolveEach(moduleNames, containingFile,
                        [result |-> <<>>, reverseMap |-> reverseMap])
  IN /\ lastResult' = st.result
     /\ reverseMap' = st.reverseMap
     /\ log' = Append(log, [op |-> "call", method |-> "resolveModuleNames",
                            moduleNames |-> moduleNames, containingFile |-> containingFile])

\* ------------------------------------------------------------------ paths

\* path.normalize on a relative path: "." is dropped, ".." removes the segment before it.
RECURSIVE NormalizeFrom(_, _)
NormalizeFrom(done, rest) ==
  IF rest = <<>> THEN done
  ELSE LET seg == Head(rest)
       IN IF seg = "." THEN NormalizeFrom(done, Tail(rest))
          ELSE IF seg = ".." /\ done # <<>> /\ done[Len(done)] # ".."
               THEN NormalizeFrom(SubSeq(done, 1, Len(done) - 1), Tail(rest))
               ELSE NormalizeFrom(Append(done, seg), Tail(rest))

\* path.join(a, b)
PathJoin(a, b) == NormalizeFrom(<<>>, a \o b)

\* path.dirname(p)
PathDirname(p) == IF p = <<>> THEN <<>> ELSE SubSeq(p, 1, Len(p) - 1)

\* mkdirp.sync(dir): the directory and every missing ancestor
Mkdirp(dirs, dir) == dirs \cup {SubSeq(dir, 1, k) : k \in 0..Len(dir)}

\* ------------------------------------------------------------------ check, formatDiagnostics

\* formatDiagnostics (src/index.ts:44): one line per diagnostic
FormatDiagnostic(d) ==
  [category |-> d.category,
   at |-> IF d.file # <<>> THEN <<d.file, d.line + 1, d.character + 1>> ELSE <<>>,
   text |-> d.messageText]

\* formatDiagnostics formatting the first diagnostic only
FormatDiagnostics_First(diags) == IF diags = <<>> THEN <<>> ELSE <<FormatDiagnostic(diags[1])>>

FormatDiagnostics(diags) == [i \in 1..Len(diags) |-> FormatDiagnostic(diags[i])]

\* check with the length test off by one
CheckFails_MoreThanOne(diags) == Len(diags) > 1 /\ diags[1] # Undefined

\* The condition of check (src/index.ts:60): diagnostics && diagnostics.length && diagnostics[0]
CheckFails(diags) == Len(diags) > 0 /\ diags[1] # Undefined

\* The log after check has reported diags and ended the process.
FatalLog(l, diags) ==
  l \o <<[op |-> "console.error", tag |-> "FATAL", text |-> FormatDiagnostics(diags)],
         [op |-> "process.exit", code |-> 1]>>

\* check(diags) when it fails: console.error and process.exit(1)
Fatal(l, diags) ==
  /\ log' = FatalLog(l, diags)
  /\ exitCode' = 1
  /\ pc' = "exited"

\* What the engine can answer when asked for diagnostics at a stage.
EngineDiagnostics(stage) == {<<>>, <<Diag(stage, TRUE)>>, <<Diag(stage, FALSE), Diag(stage, TRUE)>>}

AskedLog(l, stage, diags) == Append(l, [op |-> "diagnostics", stage |-> stage, value |-> diags])

\* ------------------------------------------------------------------ main (src/index.ts:156)

Projects == {<<"proj">>, <<"proj", "tsconfig.json">>}

\* fs.lstatSync(project).isDirectory()
IsDirectory(project) == project = <<"proj">>

\* The --basePath argument; the empty path is the argument left out.
BasePathArgs == {<<>>, <<"base">>}

OutDirs == {Undefined, [kind |-> "path", path |-> <<"out">>]}

RootFileNames == {<<<<"a", "ts">>>>, <<<<"a", "ts">>, <<"b", "ts">>>>}

InitFsys == [dirs |-> {<<>>, <<"proj">>}, files |-> EmptyMap]

Init ==
  /\ pc = "start"
  /\ extensions = <<>>
  /\ hostProgram = NoProgram
  /\ hostDiagnostics = <<>>
  /\ reverseMap = EmptyMap
  /\ lastResult = Undefined
  /\ log = <<>>
  /\ calls = 0
  /\ basePath = <<>>
  /\ options = [outDir |-> Undefined]
  /\ units = <<>>
  /\ todo = <<>>
  /\ diagnostics = <<>>
  /\ failed = FALSE
  /\ fsys = InitFsys
  /\ mainResult = -1
  /\ exitCode = -1

\* lines 157-163
Start(project, basePathArg) ==
  /\ pc = "start"
  /\ basePath' = (IF basePathArg # <<>> THEN basePathArg ELSE project)
  /\ log' = Append(log, [op |-> "main",
                         project |-> IF IsDirectory(project)
                                     THEN PathJoin(project, <<"tsconfig.json">>)
                                     ELSE project])
  /\ diagnostics' = <<>>
  /\ pc' = "readConfig"
  /\ UNCHANGED <<extensions, hostProgram, hostDiagnostics, reverseMap, lastResult, calls,
                 options, units, todo, failed, fsys, mainResult, exitCode>>

\* lines 165-170: readConfigFile, check([error]), load
ReadConfig(error, extensionsCfg) ==
  /\ pc = "readConfig"
  /\ LET asked == AskedLog(log, "config", <<error>>)
     IN IF CheckFails(<<error>>)
        THEN /\ Fatal(asked, <<error>>)
             /\ UNCHANGED extensions
        ELSE LET loaded == Load(extensionsCfg, asked)
             IN /\ extensions' = loaded.result
                /\ log' = loaded.log
                /\ pc' = "parseConfig"
                /\ UNCHANGED exitCode
  /\ UNCHANGED <<hostProgram, hostDiagnostics, reverseMap, lastResult, calls, basePath,
                 options, units, todo, diagnostics, failed, fsys, mainResult>>

\* lines 172-177: parseJsonConfigFileContent, check(parsed.errors), the two hosts
ParseConfig(errors, outDir, fileNames) ==
  /\ pc = "parseConfig"
  /\ LET asked == AskedLog(log, "parse", errors)
     IN IF CheckFails(errors)
        THEN /\ Fatal(asked, errors)
             /\ UNCHANGED <<options, todo, hostProgram, hostDiagnostics, reverseMap>>
        ELSE /\ options' = [outDir |-> outDir]
             /\ hostDiagnostics' = <<>>
             /\ hostProgram' = NoProgram
             /\ reverseMap' = EmptyMap
             /\ todo' = fileNames \o << <<"lib", "d", "ts">> >>
             /\ log' = asked
             /\ pc' = "createProgram"
             /\ UNCHANGED exitCode
  /\ UNCHANGED <<extensions, lastResult, calls, basePath, units, diagnostics, failed, fsys,
                 mainResult>>

\* line 178: ts.createProgram reads each unit through the host
CreateProgramLoad ==
  /\ pc = "createProgram"
  /\ todo # <<>>
  /\ GetSourceFile(Head(todo))
  /\ IF lastResult' = Thrown
     THEN /\ pc' = "thrown"
          /\ UNCHANGED units
     ELSE /\ units' = Append(units, lastResult')
          /\ UNCHANGED pc
  /\ todo' = Tail(todo)
  /\ UNCHANGED <<extensions, hostProgram, reverseMap, calls, basePath, options,
                 diagnostics, failed, fsys, mainResult, exitCode>>

\* the host's diagnostics validated as soon as the program is built
AssignProgram_HostChecked(ds) ==
  /\ pc = "createProgram"
  /\ todo = <<>>
  /\ hostProgram' = TheProgram
  /\ LET asked == AskedLog(Append(log, [op |-> "assignProgram"]), "options", ds)
     IN IF CheckFails(ds)
        THEN /\ Fatal(asked, ds)
             /\ UNCHANGED todo
        ELSE IF CheckFails(hostDiagnostics)
        THEN /\ Fatal(asked, hostDiagnostics)
             /\ UNCHANGED todo
        ELSE /\ log' = asked
             /\ todo' = FilterEnabled(extensions, "codegen")
             /\ pc' = "codegen"
             /\ UNCHANGED exitCode
  /\ UNCHANGED <<extensions, hostDiagnostics, reverseMap, lastResult, calls, basePath,
                 options, units, diagnostics, failed, fsys, mainResult>>

\* lines 181-182: compilerHost.program = program; check(program.getOptionsDiagnostics())
AssignProgram(ds) ==
  /\ pc = "createProgram"
  /\ todo = <<>>
  /\ hostProgram' = TheProgram
  /\ LET asked == AskedLog(Append(log, [op |-> "assignProgram"]), "options", ds)
     IN IF CheckFails(ds)
        THEN /\ Fatal(asked, ds)
             /\ UNCHANGED todo
        ELSE /\ log' = asked
             /\ todo' = FilterEnabled(extensions, "codegen")
             /\ pc' = "codegen"
             /\ UNCHANGED exitCode
  /\ UNCHANGED <<extensions, hostDiagnostics, reverseMap, lastResult, calls, basePath,
                 options, units, diagnostics, failed, fsys, mainResult>>

\* isCompilationTarget leaving the declaration units out
IsCompilationTarget_InputsOnly(sf) == ~IsDefinitions(sf.fileName)

\* line 184: isCompilationTarget
IsCompilationTarget(sf) == TRUE

\* the directory of a codegen write with genDir taken as it is, not under basePath
CodegenOutDir_GenDirAlone(ext) ==
  IF ext.options.genDir # <<>>
  THEN [kind |-> "path", path |-> ext.options.genDir]
  ELSE options.outDir

\* lines 192-197: the directory a codegen write goes to; Undefined when neither
\* genDir nor the engine's outDir is set
CodegenOutDir(ext) ==
  IF ext.options.genDir # <<>>
  THEN [kind |-> "path", path |-> PathJoin(basePath, ext.options.genDir)]
  ELSE options.outDir

\* line 199: mkdirp.sync(path.dirname(dest))
MkdirpDest(dirs, dest) == Mkdirp(dirs, PathDirname(dest))

\* fs.writeFileSync(dest, source): fails when the directory of dest does not exist
CanWrite(dirs, dest) == PathDirname(dest) \in dirs

SetFile(files, dest, source) ==
  [f \in DOMAIN files \cup {dest} |-> IF f = dest THEN source ELSE files[f]]

\* the write callback passing the source through the postProcess hooks before storing it
CodegenWrite_PostProcessed(ext, filename, source, st) ==
  LET outDir == CodegenOutDir(ext)
  IN IF outDir = Undefined THEN [st EXCEPT !.thrown = TRUE]
     ELSE LET dest == PathJoin(outDir.path, filename)
              dirs1 == MkdirpDest(st.fsys.dirs, dest)
              log1 == Append(st.log, [op |-> "mkdirp", ext |-> ext.name,
                                      dir |-> PathDirname(dest)])
              post == PostProcessEach(FilterEnabled(extensions, "postProcess"), filename,
                                      [content |-> source, log |-> log1, thrown |-> FALSE])
          IN IF CanWrite(dirs1, dest) /\ ~post.thrown
             THEN [fsys |-> [dirs |-> dirs1,
                             files |-> SetFile(st.fsys.files, dest, post.content)],
                   log |-> Append(post.log, [op |-> "writeFileSync", ext |-> ext.name,
                                             filename |-> filename, dest |-> dest,
                                             source |-> post.content]),
                   thrown |-> FALSE]
             ELSE [fsys |-> [dirs |-> dirs1, files |-> st.fsys.files],
                   log |-> log1, thrown |-> TRUE]

\* lines 191-202: the write callback given to ext.codegen; st is [fsys, log, thrown].
\* path.join raises a TypeError on an undefined directory.
CodegenWrite(ext, filename, source, st) ==
  LET outDir == CodegenOutDir(ext)
  IN IF outDir = Undefined THEN [st EXCEPT !.thrown = TRUE]
     ELSE LET dest == PathJoin(outDir.path, filename)
              dirs1 == MkdirpDest(st.fsys.dirs, dest)
              log1 == Append(st.log, [op |-> "mkdirp", ext |-> ext.name,
                                      dir |-> PathDirname(dest)])
          IN IF CanWrite(dirs1, dest)
             THEN [fsys |-> [dirs |-> dirs1, files |-> SetFile(st.fsys.files, dest, source)],
                   log |-> Append(log1, [op |-> "writeFileSync", ext |-> ext.name,
                                         filename |-> filename, dest |-> dest,
                                         source |-> source]),
                   thrown |-> FALSE]
             ELSE [fsys |-> [dirs |-> dirs1, files |-> st.fsys.files],
                   log |-> log1, thrown |-> TRUE]

\* An extension's codegen hook: calls the write callback for each file it generates,
\* until one call raises.
RECURSIVE CodegenHook(_, _, _)
CodegenHook(ext, writes, st) ==
  IF writes = <<>> \/ st.thrown THEN st
  ELSE CodegenHook(ext, Tail(writes),
                   CodegenWrite(ext, Head(writes).filename, Head(writes).source, st))

\* lines 190-202: one round of the forEach over the codegen-enabled extensions
Codegen ==
  /\ pc = "codegen"
  /\ todo # <<>>
  /\ LET ext == Head(todo)
         st == CodegenHook(ext, ext.codegen.writes,
                           [fsys |-> fsys,
                            log |-> Append(log, [op |-> "codegen", ext |-> ext.name]),
                            thrown |-> FALSE])
     IN /\ fsys' = st.fsys
        /\ log' = (IF st.thrown
                   THEN Append(st.log, [op |-> "throw", from |-> "codegen", ext |-> ext.name])
                   ELSE st.log)
        /\ pc' = (IF st.thrown THEN "thrown" ELSE "codegen")
        /\ todo' = Tail(todo)
  /\ UNCHANGED <<extensions, hostProgram, hostDiagnostics, reverseMap, lastResult, calls,
                 basePath, options, units, diagnostics, failed, mainResult, exitCode>>

\* line 204: check(program.getGlobalDiagnostics())
GlobalDiagnostics(ds) ==
  /\ pc = "codegen"
  /\ todo = <<>>
  /\ LET asked == AskedLog(log, "global", ds)
     IN IF CheckFails(ds)
        THEN /\ Fatal(asked, ds)
             /\ UNCHANGED todo
        ELSE /\ log' = asked
             /\ todo' = units
             /\ pc' = "preEmit"
             /\ UNCHANGED exitCode
  /\ UNCHANGED <<extensions, hostProgram, hostDiagnostics, reverseMap, lastResult, calls,
                 basePath, options, units, diagnostics, failed, fsys, mainResult>>

\* lines 206-210: one round of the loop over program.getSourceFiles()
PreEmitUnit(ds) ==
  /\ pc = "preEmit"
  /\ todo # <<>>
  /\ IF IsCompilationTarget(Head(todo))
     THEN /\ diagnostics' = diagnostics \o ds
          /\ log' = Append(log, [op |-> "diagnostics", stage |-> "unit",
                                 unit |-> Head(todo).fileName, value |-> ds])
     ELSE UNCHANGED <<diagnostics, log>>
  /\ todo' = Tail(todo)
  /\ UNCHANGED <<pc, extensions, hostProgram, hostDiagnostics, reverseMap, lastResult, calls,
                 basePath, options, units, failed, fsys, mainResult, exitCode>>

\* the two checks of lines 211-212 in the other order
CheckPreEmit_HostFirst ==
  /\ pc = "preEmit"
  /\ todo = <<>>
  /\ IF CheckFails(hostDiagnostics) THEN Fatal(log, hostDiagnostics)
     ELSE IF CheckFails(diagnostics) THEN Fatal(log, diagnostics)
     ELSE /\ pc' = "typeCheck"
          /\ UNCHANGED <<log, exitCode>>
  /\ UNCHANGED <<extensions, hostProgram, hostDiagnostics, reverseMap, lastResult, calls,
                 basePath, options, units, todo, diagnostics, failed, fsys, mainResult>>

\* lines 211-212: check(diagnostics); check(compilerHost.diagnostics)
CheckPreEmit ==
  /\ pc = "preEmit"
  /\ todo = <<>>
  /\ IF CheckFails(diagnostics) THEN Fatal(log, diagnostics)
     ELSE IF CheckFails(hostDiagnostics) THEN Fatal(log, hostDiagnostics)
     ELSE /\ pc' = "typeCheck"
          /\ UNCHANGED <<log, exitCode>>
  /\ UNCHANGED <<extensions, hostProgram, hostDiagnostics, reverseMap, lastResult, calls,
                 basePath, options, units, todo, diagnostics, failed, fsys, mainResult>>

\* line 215: check(ts.getPreEmitDiagnostics(program))
TypeCheck(ds) ==
  /\ pc = "typeCheck"
  /\ LET asked == AskedLog(log, "program", ds)
     IN IF CheckFails(ds)
        THEN /\ Fatal(asked, ds)
             /\ UNCHANGED todo
        ELSE /\ log' = asked
             /\ todo' = FilterEnabled(extensions, "check")
             /\ pc' = "check"
             /\ UNCHANGED exitCode
  /\ UNCHANGED <<extensions, hostProgram, hostDiagnostics, reverseMap, lastResult, calls,
                 basePath, options, units, diagnostics, failed, fsys, mainResult>>

\* the forEach of line 217 going on after a hook has asked the process to end
CheckHook_ExitIgnored ==
  /\ pc = "check"
  /\ todo # <<>>
  /\ LET called == Append(log, [op |-> "check", ext |-> Head(todo).name, args |-> <<>>])
     IN log' = (IF Head(todo).check.kind = "throw"
                THEN Append(called, [op |-> "throw", from |-> "check",
                                     ext |-> Head(todo).name])
                ELSE called)
  /\ pc' = (IF Head(todo).check.kind = "throw" THEN "thrown" ELSE pc)
  /\ todo' = Tail(todo)
  /\ UNCHANGED <<extensions, hostProgram, hostDiagnostics, reverseMap, lastResult, calls,
                 basePath, options, units, diagnostics, failed, fsys, mainResult, exitCode>>

\* line 217: one round of the forEach over the check-enabled extensions.  A check
\* hook returns, ends the process itself (process.exit(1)) or raises an error.
CheckHook ==
  /\ pc = "check"
  /\ todo # <<>>
  /\ LET ext == Head(todo)
         called == Append(log, [op |-> "check", ext |-> ext.name, args |-> <<>>])
     IN CASE ext.check.kind = "exit" ->
               /\ log' = Append(called, [op |-> "process.exit", code |-> 1])
               /\ exitCode' = 1
               /\ pc' = "exited"
          [] ext.check.kind = "throw" ->
               /\ log' = Append(called, [op |-> "throw", from |-> "check",
                                         ext |-> ext.name])
               /\ pc' = "thrown"
               /\ UNCHANGED exitCode
          [] OTHER ->
               /\ log' = called
               /\ UNCHANGED <<pc, exitCode>>
  /\ todo' = Tail(todo)
  /\ UNCHANGED <<extensions, hostProgram, hostDiagnostics, reverseMap, lastResult, calls,
                 basePath, options, units, diagnostics, failed, fsys, mainResult>>

\* line 219: let failed = false
BeginEmit ==
  /\ pc = "check"
  /\ todo = <<>>
  /\ failed' = FALSE
  /\ todo' = units
  /\ pc' = "emit"
  /\ UNCHANGED <<extensions, hostProgram, hostDiagnostics, reverseMap, lastResult, log, calls,
                 basePath, options, units, diagnostics, fsys, mainResult, exitCode>>

\* The name of the output the engine emits for a unit.
OutputName(fileName) == SubSeq(fileName, 1, Len(fileName) - 1) \o <<"js">>

\* program.emit(sf): unless the emission is skipped, the engine writes the output of a
\* non-declaration unit through the host.  An error raised in the host's writeFile
\* leaves emit before it returns a result.
EmitLog(l, sf, ds, emitSkipped) ==
  LET called == Append(l, [op |-> "emit", unit |-> sf.fileName])
      written == IF emitSkipped \/ IsDefinitions(sf.fileName) THEN called
                 ELSE WriteFileLog(called, OutputName(sf.fileName), sf.text, FALSE, Undefined)
  IN IF Raised(written) THEN written
     ELSE Append(written, [op |-> "diagnostics", stage |-> "emit", unit |-> sf.fileName,
                           value |-> ds, emitSkipped |-> emitSkipped])

\* line 223: diagnostics.push(...diagnostics).  The diagnostics destructured from the
\* emit result on line 222 shadow main's array: the push appends the emit result to
\* itself, and main's array is left as it was.
EmitPush(outer, inner) == outer

\* lines 220-226: one round of the emit loop
EmitUnit(ds, emitSkipped) ==
  /\ pc = "emit"
  /\ todo # <<>>
  /\ IF IsCompilationTarget(Head(todo))
     THEN /\ log' = EmitLog(log, Head(todo), ds, emitSkipped)
          /\ IF Raised(log')
             THEN /\ pc' = "thrown"
                  /\ UNCHANGED <<diagnostics, failed>>
             ELSE /\ diagnostics' = EmitPush(diagnostics, ds)
                  /\ failed' = (failed \/ emitSkipped)
                  /\ UNCHANGED pc
     ELSE UNCHANGED <<log, diagnostics, failed, pc>>
  /\ todo' = Tail(todo)
  /\ UNCHANGED lastResult
  /\ UNCHANGED <<extensions, hostProgram, hostDiagnostics, reverseMap, calls, basePath,
                 options, units, fsys, mainResult, exitCode>>

\* lines 227-228: check(diagnostics); return failed ? 1 : 0
Return ==
  /\ pc = "emit"
  /\ todo = <<>>
  /\ IF CheckFails(diagnostics)
     THEN /\ Fatal(log, diagnostics)
          /\ UNCHANGED mainResult
     ELSE /\ mainResult' = (IF failed THEN 1 ELSE 0)
          /\ pc' = "returned"
          /\ UNCHANGED <<log, exitCode>>
  /\ UNCHANGED <<extensions, hostProgram, hostDiagnostics, reverseMap, lastResult, calls,
                 basePath, options, units, todo, diagnostics, failed, fsys>>

\* line 235: process.exit(main(...))
CLIExit ==
  /\ pc = "returned"
  /\ log' = Append(log, [op |-> "process.exit", code |-> mainResult])
  /\ exitCode' = mainResult
  /\ pc' = "exited"
  /\ UNCHANGED <<extensions, hostProgram, hostDiagnostics, reverseMap, lastResult, calls,
                 basePath, options, units, todo, diagnostics, failed, fsys, mainResult>>

\* the catch of the entry point reporting the error and ending the process with 0
CLICatch_ExitZero ==
  /\ pc = "thrown"
  /\ log' = log \o <<[op |-> "console.error", tag |-> "FATAL", text |-> <<Line("Exception", "e.message")>>],
                     [op |-> "process.exit", code |-> 0]>>
  /\ exitCode' = 0
  /\ pc' = "exited"
  /\ UNCHANGED <<extensions, hostProgram, hostDiagnostics, reverseMap, lastResult, calls,
                 basePath, options, units, todo, diagnostics, failed, fsys, mainResult>>

\* lines 236-239: the catch of the entry point
CLICatch ==
  /\ pc = "thrown"
  /\ log' = log \o <<[op |-> "console.error", tag |-> "FATAL", text |-> <<Line("Exception", "e.message")>>],
                     [op |-> "process.exit", code |-> 1]>>
  /\ exitCode' = 1
  /\ pc' = "exited"
  /\ UNCHANGED <<extensions, hostProgram, hostDiagnostics, reverseMap, lastResult, calls,
                 basePath, options, units, todo, diagnostics, failed, fsys, mainResult>>

Next ==
  \/ \E project \in Projects, basePathArg \in BasePathArgs : Start(project, basePathArg)
  \/ \E error \in {Undefined, Diag("config", FALSE)}, extensionsCfg \in ExtensionsCfgs :
       ReadConfig(error, extensionsCfg)
  \/ \E errors \in EngineDiagnostics("parse"), outDir \in OutDirs, fileNames \in RootFileNames :
       ParseConfig(errors, outDir, fileNames)
  \/ CreateProgramLoad
  \/ \E ds \in EngineDiagnostics("options") : AssignProgram(ds)
  \/ Codegen
  \/ \E ds \in EngineDiagnostics("global") : GlobalDiagnostics(ds)
  \/ \E ds \in EngineDiagnostics("unit") : PreEmitUnit(ds)
  \/ CheckPreEmit
  \/ \E ds \in EngineDiagnostics("program") : TypeCheck(ds)
  \/ CheckHook
  \/ BeginEmit
  \/ \E ds \in EngineDiagnostics("emit"), emitSkipped \in BOOLEAN : EmitUnit(ds, emitSkipped)
  \/ Return
  \/ CLIExit
  \/ CLICatch

Spec == Init /\ [][Next]_vars

\* ------------------------------------------------------------------ the host on its own

\* An ExtCompilerHost over any loaded extension list, called by the engine in any order.
\* The modules with a hook the host calls (preProcess or postProcess).
HostModules ==
  {module \in Modules :
     /\ Installed(module)
     /\ \/ RequireDefault(module).preProcess # Absent
        \/ RequireDefault(module).postProcess # Absent}

\* The extension lists main can construct the host with, over those modules.
HostExtensionsCfgs ==
  {cfg \in ExtensionsCfgs :
     cfg # Undefined /\ \A i \in 1..Len(cfg.keys) : cfg.keys[i] \in HostModules}

HostInit ==
  /\ pc = "host"
  /\ extensions \in {Load(cfg, <<>>).result : cfg \in HostExtensionsCfgs}
  /\ hostProgram \in {NoProgram, TheProgram}
  /\ hostDiagnostics = <<>>
  /\ reverseMap = EmptyMap
  /\ lastResult = Undefined
  /\ log = <<>>
  /\ calls = 0
  /\ basePath = <<>>
  /\ options = [outDir |-> Undefined]
  /\ units = <<>>
  /\ todo = <<>>
  /\ diagnostics = <<>>
  /\ failed = FALSE
  /\ fsys = InitFsys
  /\ mainResult = -1
  /\ exitCode = -1

WriteArgs ==
  {[content |-> <<"x", "y", "y">>, writeByteOrderMark |-> TRUE, onError |-> Undefined],
   [content |-> <<"x", "y", "y">>, writeByteOrderMark |-> FALSE, onError |-> [kind |-> "callback"]]}

ResolveRequests ==
  {[moduleNames |-> <<"./a", "a">>, containingFile |-> <<"b", "ts">>],
   [moduleNames |-> <<"a", "./a">>, containingFile |-> <<"b", "ts">>],
   [moduleNames |-> <<"none", "./b">>, containingFile |-> <<"a", "ts">>],
   [moduleNames |-> <<"./c", "none">>, containingFile |-> <<"a", "ts">>],
   [moduleNames |-> <<"./c", "./a">>, containingFile |-> <<"b", "ts">>]}

\* The file names the engine asks the host for.
HostFileNames ==
  {<<"a", "ts">>, <<"lib", "d", "ts">>, <<"d", "ts">>} \cup MissingFiles

HostGetSourceFile(fileName) ==
  /\ pc = "host"
  /\ calls < MaxCalls
  /\ calls' = calls + 1
  /\ GetSourceFile(fileName)
  /\ UNCHANGED <<pc, extensions, hostProgram, reverseMap, mainVars>>

HostWriteFile(fileName, args) ==
  /\ pc = "host"
  /\ calls < MaxCalls
  /\ calls' = calls + 1
  /\ WriteFile(fileName, args.content, args.writeByteOrderMark, args.onError)
  /\ UNCHANGED <<pc, extensions, hostProgram, hostDiagnostics, reverseMap, mainVars>>

HostResolveModuleNames(moduleNames, containingFile) ==
  /\ pc = "host"
  /\ calls < MaxCalls
  /\ calls' = calls + 1
  /\ ResolveModuleNames(moduleNames, containingFile)
  /\ UNCHANGED <<pc, extensions, hostProgram, hostDiagnostics, mainVars>>

HostNext ==
  \/ \E fileName \in HostFileNames : HostGetSourceFile(fileName)
  \/ \E args \in WriteArgs : HostWriteFile(<<"a", "js">>, args)
  \/ \E request \in ResolveRequests :
       HostResolveModuleNames(request.moduleNames, request.containingFile)

SpecHost == HostInit /\ [][HostNext]_vars

\* ------------------------------------------------------------------ DelegatingHost (src/unnamed/part_000:7)

\* The members of the base host main wraps, ts.createCompilerHost(options, true): the
\* engine's host defines neither resolveModuleNames nor getCancellationToken, which
\* the CompilerHost contract leaves optional.
DelegateMembers ==
  {"getSourceFile", "getDefaultLibFileName", "getDefaultLibLocation", "writeFile",
   "getCurrentDirectory", "getCanonicalFileName", "useCaseSensitiveFileNames",
   "getNewLine", "fileExists", "readFile", "trace", "directoryExists"}

LowerChar(c) == CASE c = "X" -> "x" [] c = "Y" -> "y" [] OTHER -> c

\* String.prototype.toLowerCase
ToLower(s) == [i \in 1..Len(s) |-> LowerChar(s[i])]

\* sys.useCaseSensitiveFileNames of the platform the base host runs on
DelegateUseCaseSensitiveFileNames == FALSE

\* What a member of the base host returns for the arguments it is called with.
DelegateCall(method, args) ==
  CASE method = "getSourceFile" -> DelegateGetSourceFile(args[1])
    [] method = "getDefaultLibFileName" -> <<"lib", "d", "ts">>
    [] method = "getDefaultLibLocation" -> <<"node_modules", "typescript", "lib">>
    [] method = "getCurrentDirectory" -> <<"proj">>
    [] method = "getCanonicalFileName" ->
         (IF DelegateUseCaseSensitiveFileNames THEN args[1] ELSE ToLower(args[1]))
    [] method = "useCaseSensitiveFileNames" -> DelegateUseCaseSensitiveFileNames
    [] method = "getNewLine" -> "LF"
    [] method = "fileExists" -> DelegateFileExists(args[1])
    [] method = "readFile" -> DelegateReadFile(args[1])
    [] method = "directoryExists" -> args[1] \in InitFsys.dirs
    [] OTHER -> Undefined

\* A member of DelegatingHost: (...args) => this.delegate.member(...args).  Calling
\* a member the base host does not define raises a TypeError.
Forward(method, args) ==
  /\ pc = "delegating"
  /\ calls < MaxCalls
  /\ calls' = calls + 1
  /\ IF method \in DelegateMembers
     THEN /\ log' = log \o <<[op |-> "call", method |-> method, args |-> args],
                             [op |-> "delegate", method |-> method, args |-> args]>>
          /\ lastResult' = [kind |-> "returned", value |-> DelegateCall(method, args)]
     ELSE /\ log' = log \o <<[op |-> "call", method |-> method, args |-> args],
                             [op |-> "throw", from |-> method, ext |-> "none"]>>
          /\ lastResult' = Thrown
  /\ UNCHANGED <<pc, extensions, hostProgram, hostDiagnostics, reverseMap, mainVars>>

\* part_000:9-11
DelegatingGetSourceFile(fileName, languageVersion, onError) ==
  Forward("getSourceFile", <<fileName, languageVersion, onError>>)

\* part_000:13
DelegatingGetCancellationToken == Forward("getCancellationToken", <<>>)

\* part_000:14-15
DelegatingGetDefaultLibFileName(compilerOptions) ==
  Forward("getDefaultLibFileName", <<compilerOptions>>)

\* part_000:16
DelegatingGetDefaultLibLocation == Forward("getDefaultLibLocation", <<>>)

\* part_000:17: the base host's function itself, taken when the host is constructed
DelegatingWriteFile(fileName, content, writeByteOrderMark, onError) ==
  Forward("writeFile", <<fileName, content, writeByteOrderMark, onError>>)

\* part_000:18
DelegatingGetCurrentDirectory == Forward("getCurrentDirectory", <<>>)

\* part_000:19
DelegatingGetCanonicalFileName(fileName) == Forward("getCanonicalFileName", <<fileName>>)

\* part_000:20
DelegatingUseCaseSensitiveFileNames == Forward("useCaseSensitiveFileNames", <<>>)

\* part_000:21
DelegatingGetNewLine == Forward("getNewLine", <<>>)

\* part_000:22-23
DelegatingResolveModuleNames(moduleNames, containingFile) ==
  Forward("resolveModuleNames", <<moduleNames, containingFile>>)

\* part_000:34
DelegatingFileExists(fileName) == Forward("fileExists", <<fileName>>)

\* part_000:35
DelegatingReadFile(fileName) == Forward("readFile", <<fileName>>)

\* part_000:36
DelegatingTrace(message) == Forward("trace", <<message>>)

\* part_000:37
DelegatingDirectoryExists(directoryName) == Forward("directoryExists", <<directoryName>>)

DelegatingInit ==
  /\ pc = "delegating"
  /\ extensions = <<>>
  /\ hostProgram = NoProgram
  /\ hostDiagnostics = <<>>
  /\ reverseMap = EmptyMap
  /\ lastResult = Undefined
  /\ log = <<>>
  /\ calls = 0
  /\ basePath = <<>>
  /\ options = [outDir |-> Undefined]
  /\ units = <<>>
  /\ todo = <<>>
  /\ diagnostics = <<>>
  /\ failed = FALSE
  /\ fsys = InitFsys
  /\ mainResult = -1
  /\ exitCode = -1

\* File names handed to the delegating host; X.ts differs from its canonical form.
DelegatingFileNames == SourceFiles \cup MissingFiles \cup {<<"X", "ts">>}

DelegatingNext ==
  \/ \E fileName \in DelegatingFileNames, onError \in {Undefined, [kind |-> "callback"]} :
       DelegatingGetSourceFile(fileName, "ES5", onError)
  \/ DelegatingGetCancellationToken
  \/ DelegatingGetDefaultLibFileName([outDir |-> Undefined])
  \/ DelegatingGetDefaultLibLocation
  \/ \E args \in WriteArgs :
       DelegatingWriteFile(<<"a", "js">>, args.content, args.writeByteOrderMark, args.onError)
  \/ DelegatingGetCurrentDirectory
  \/ \E fileName \in DelegatingFileNames : DelegatingGetCanonicalFileName(fileName)
  \/ DelegatingUseCaseSensitiveFileNames
  \/ DelegatingGetNewLine
  \/ \E request \in ResolveRequests :
       DelegatingResolveModuleNames(request.moduleNames, request.containingFile)
  \/ \E fileName \in DelegatingFileNames : DelegatingFileExists(fileName)
  \/ \E fileName \in DelegatingFileNames : DelegatingReadFile(fileName)
  \/ \E message \in {"resolving", "done"} : DelegatingTrace(message)
  \/ \E directoryName \in {<<"proj">>, <<"nowhere">>} : DelegatingDirectoryExists(directoryName)

SpecDelegating == DelegatingInit /\ [][DelegatingNext]_vars

\* ------------------------------------------------------------------ reading the log

Events(op) == {i \in 1..Len(log) : log[i].op = op}

\* The answers the engine gave at a stage.
Asked(stage) == {i \in Events("diagnostics") : log[i].stage = stage}

Range(seq) == {seq[i] : i \in 1..Len(seq)}

\* ------------------------------------------------------------------ C1

\* C1: in every run of main the Program reference is assigned onto the host exactly
\* once, and before any preProcess hook is invoked: no preProcess call receives an
\* unassigned Program reference.
C1_ProgramAssignedBeforePreProcess ==
  /\ Cardinality(Events("assignProgram")) <= 1
  /\ \A i \in Events("preProcess") : log[i].program = TheProgram

\* ------------------------------------------------------------------ C2

EmitDiagnosticsReturned ==
  \E i \in Asked("emit") : log[i].value # <<>>

\* C2: if the emission of any compilation target returns a diagnostic, the run
\* aborts instead of main returning.
C2_EmitDiagnosticsAbort ==
  EmitDiagnosticsReturned => mainResult = -1

\* ------------------------------------------------------------------ C3

EmitSkippedSome == \E i \in Asked("emit") : log[i].emitSkipped

\* The units emit was called for, in call order.
EmittedUnits ==
  LET emits == SelectSeq(log, LAMBDA e : e.op = "emit")
  IN [i \in 1..Len(emits) |-> emits[i].unit]

\* C3: when main returns, it returns 1 if and only if at least one emit call
\* reported its emission as skipped, and 0 otherwise; and emit was called for every
\* unit of the program.
C3_ReturnIffSkipped ==
  mainResult # -1 =>
    /\ mainResult = (IF EmitSkippedSome THEN 1 ELSE 0)
    /\ EmittedUnits = [i \in 1..Len(units) |-> units[i].fileName]

C3_Witness ==
  /\ pc = "returned"
  /\ mainResult = 1
  /\ Len(units) = 3
  /\ \E i \in Asked("emit") : ~log[i].emitSkipped

\* ------------------------------------------------------------------ C4

\* The stages main validates before the check hooks and the emission, in the order
\* of their validation.
PreEmissionStages == {"config", "parse", "options", "global", "unit", "program"}

\* The positions main can be in while stage's answer is still to be validated.
BeforeValidation(stage) == IF stage = "unit" THEN {"preEmit"} ELSE {}

StageFailed(i) ==
  /\ log[i].op = "diagnostics"
  /\ log[i].stage \in PreEmissionStages
  /\ CheckFails(log[i].value)

NoCheckNoEmit ==
  /\ Events("check") = {}
  /\ Events("emit") = {}
  /\ Events("delegate.writeFile") = {}

\* C4: if the descriptor error, the option-parse errors, the option, global, per-unit
\* or full-program diagnostics, or the host's accumulated preProcess diagnostics are
\* non-empty, the run ends with exit code 1 at the step that validates them and no
\* later step runs: no check hook is invoked and no emit call is made.
C4_FailStopBeforeEmission ==
  /\ \A i \in 1..Len(log) : StageFailed(i) =>
       /\ NoCheckNoEmit
       /\ pc \in BeforeValidation(log[i].stage) \cup {"exited"}
       /\ pc = "exited" => exitCode = 1
  /\ hostDiagnostics # <<>> =>
       /\ NoCheckNoEmit
       /\ pc \in {"createProgram", "codegen", "preEmit", "thrown", "exited"}
       /\ pc = "exited" => exitCode = 1

\* The run was ended by the validation of the host's preProcess diagnostics alone.
C4_Witness ==
  /\ pc = "exited"
  /\ exitCode = 1
  /\ hostDiagnostics # <<>>
  /\ diagnostics = <<>>
  /\ Asked("global") # {}
  /\ \E i \in Events("console.error") : log[i].text = FormatDiagnostics(hostDiagnostics)

\* ------------------------------------------------------------------ C5

\* The run was ended by line 211 or 212: the last answer of the engine is a per-unit
\* one, and a report follows it.
AbortAtPreEmit ==
  /\ pc = "exited"
  /\ Len(log) >= 3
  /\ log[Len(log) - 2].op = "diagnostics"
  /\ log[Len(log) - 2].stage = "unit"
  /\ log[Len(log) - 1].op = "console.error"

Reported == log[Len(log) - 1].text

Max(S) == CHOOSE m \in S : \A n \in S : n <= m

\* The host call lastResult answers, and what the host did for it.
LastCallAt == Max(Events("call"))
LastCall == log[LastCallAt]
LastCallDid == SubSeq(log, LastCallAt + 1, Len(log))

\* The last thing that happened is a source retrieval of a non-declaration unit that
\* returned (no hook and no parse raised an error).
RetrievedSource ==
  /\ pc = "host"
  /\ Events("call") # {}
  /\ LastCall.method = "getSourceFile"
  /\ ~IsDefinitions(LastCall.fileName)
  /\ lastResult # Thrown

\* ------------------------------------------------------------------ C6

\* The markers of the preProcess-capable extensions, in extension order.
RECURSIVE PreProcessMarks(_)
PreProcessMarks(exts) ==
  IF exts = <<>> THEN <<>>
  ELSE (IF Enabled("preProcess", Head(exts)) THEN Head(exts).preProcess.mark ELSE <<>>)
       \o PreProcessMarks(Tail(exts))

\* C6: preProcess composes sequentially: the content source retrieval re-parses and
\* returns for a non-declaration unit is the input followed by the marker of every
\* preProcess-capable extension in order (input+"A"+"B" for extensions A, B).
C6_PreProcessComposes ==
  RetrievedSource =>
    lastResult.text = SourceText(LastCall.fileName) \o PreProcessMarks(extensions)

\* ------------------------------------------------------------------ C7

\* The diagnostics the preProcess-capable extensions return, in extension order.
RECURSIVE PreProcessDiagnostics(_)
PreProcessDiagnostics(exts) ==
  IF exts = <<>> THEN <<>>
  ELSE (IF Enabled("preProcess", Head(exts)) THEN Head(exts).preProcess.diagnostics ELSE <<>>)
       \o PreProcessDiagnostics(Tail(exts))

IsPrefix(s, t) == Len(s) <= Len(t) /\ SubSeq(t, 1, Len(s)) = s

\* C7: a source retrieval of a non-declaration unit leaves the accumulator equal to its
\* previous value followed by the diagnostics of every preProcess-capable extension,
\* in extension order; no step removes or reorders an entry of the accumulator.
C7_DiagnosticsAccumulate ==
  [][/\ IsPrefix(hostDiagnostics, hostDiagnostics')
     /\ (calls' # calls /\ RetrievedSource') =>
          hostDiagnostics' = hostDiagnostics \o PreProcessDiagnostics(extensions)]_vars

\* Two retrievals with extensions A and C: both extensions' diagnostics, twice.
C7_Witness ==
  /\ RetrievedSource
  /\ Len(FilterEnabled(extensions, "preProcess")) >= 2
  /\ Len(hostDiagnostics) = 6
  /\ hostDiagnostics[1] # hostDiagnostics[2]
  /\ lastResult.text # SourceText(LastCall.fileName) \o PreProcessMarks(extensions)

\* ------------------------------------------------------------------ C8

\* The postProcess hooks of the extensions that have one, applied left to right.
RECURSIVE PostProcessAll(_, _, _)
PostProcessAll(exts, fileName, content) ==
  IF exts = <<>> THEN content
  ELSE PostProcessAll(Tail(exts), fileName,
                      IF Enabled("postProcess", Head(exts))
                      THEN PostProcessHook(Head(exts), fileName, content)
                      ELSE content)

\* The last thing that happened is an output write that returned (no hook raised).
WroteOutput ==
  /\ pc = "host"
  /\ Events("call") # {}
  /\ LastCall.method = "writeFile"
  /\ lastResult # Thrown

\* C8: an output write calls the base host's write exactly once, last, with the
\* content the postProcess hooks yield left to right from the original content and
\* with the path, the byte-order-mark flag and the error callback it was given;
\* every postProcess-capable extension's hook is called once, in order, with the
\* original path.
C8_WriteFilePostProcessChain ==
  WroteOutput =>
    LET did == LastCallDid
        hooks == SelectSeq(did, LAMBDA e : e.op = "postProcess")
        capable == FilterEnabled(extensions, "postProcess")
    IN /\ Len(did) = Len(hooks) + 1
       /\ did[Len(did)] =
            [op |-> "delegate.writeFile",
             fileName |-> LastCall.fileName,
             content |-> PostProcessAll(extensions, LastCall.fileName, LastCall.content),
             writeByteOrderMark |-> LastCall.writeByteOrderMark,
             onError |-> LastCall.onError]
       /\ Len(hooks) = Len(capable)
       /\ \A i \in 1..Len(hooks) :
            /\ hooks[i].ext = capable[i].name
            /\ hooks[i].fileName = LastCall.fileName

\* Reversing then truncating "xyy" gives "yy"; truncating then reversing would give "yx".
C8_Witness ==
  /\ WroteOutput
  /\ Len(FilterEnabled(extensions, "postProcess")) = 2
  /\ LastCall.content = <<"x", "y", "y">>
  /\ LastCall.writeByteOrderMark
  /\ log[Len(log)].content = <<"y", "y">>

\* ------------------------------------------------------------------ C9

\* Every stage before the emission was asked before position i of the log, and
\* answered nothing that fails its validation.
StagesPassedBefore(i) ==
  /\ \A stage \in PreEmissionStages \ {"unit"} : \E j \in Asked(stage) : j < i
  /\ \A f \in Range(units) : \E j \in Asked("unit") : j < i /\ log[j].unit = f.fileName
  /\ \A j \in 1..Len(log) :
       (log[j].op = "diagnostics" /\ log[j].stage \in PreEmissionStages) =>
         (j < i /\ ~CheckFails(log[j].value))
  /\ hostDiagnostics = <<>>

\* The extensions whose check hook was called, in call order.
CheckedExtensions ==
  LET checks == SelectSeq(log, LAMBDA e : e.op = "check")
  IN [i \in 1..Len(checks) |-> checks[i].ext]

CheckCapableNames ==
  LET capable == FilterEnabled(extensions, "check")
  IN [i \in 1..Len(capable) |-> capable[i].name]

\* A check hook ended the process or raised an error.
CheckHookEndedRun ==
  \E i \in Events("check") :
    \E ext \in Range(extensions) : ext.name = log[i].ext /\ ext.check.kind # "ok"

\* C9: check hooks run after every diagnostic stage before the emission has passed and
\* before the first emit call, in configuration order and with no arguments; when a
\* check hook ends the process, the exit code is 1 and neither an emit call nor an
\* output write has happened.
C9_CheckHooksBetweenDiagnosticsAndEmit ==
  /\ \A i \in Events("check") :
       /\ StagesPassedBefore(i)
       /\ log[i].args = <<>>
       /\ \A j \in Events("emit") \cup Events("delegate.writeFile") : i < j
  /\ IsPrefix(CheckedExtensions, CheckCapableNames)
  /\ Events("emit") # {} => CheckedExtensions = CheckCapableNames
  /\ CheckHookEndedRun =>
       /\ pc \in {"thrown", "exited"}
       /\ pc = "exited" => exitCode = 1
       /\ Events("emit") = {}
       /\ Events("delegate.writeFile") = {}

\* Extension B's hook returned, then extension D's ended the process.
C9_Witness ==
  /\ pc = "exited"
  /\ exitCode = 1
  /\ CheckedExtensions = <<"B", "D">>
  /\ Events("emit") = {}

\* ------------------------------------------------------------------ C10

ExtensionNamed(name) == CHOOSE ext \in Range(extensions) : ext.name = name

\* Where the claim puts a codegen write of extension ext with relative path r.
ClaimedDest(ext, r) ==
  IF ext.options.genDir # <<>>
  THEN NormalizeFrom(<<>>, basePath \o ext.options.genDir \o r)
  ELSE NormalizeFrom(<<>>, options.outDir.path \o r)

\* The codegen hook of the extension called at position i of the log can write:
\* it has a genDir, or the engine has an output directory.
HasOutDir(i) ==
  ExtensionNamed(log[i].ext).options.genDir # <<>> \/ options.outDir # Undefined

\* C10: every write a codegen hook requests with relative path r lands at
\* basePath/genDir/r when the extension has a genDir, whatever the engine's output
\* directory, and at outDir/r otherwise; the directory tree of the destination is
\* created right before the content is written.
C10_CodegenWritesLand ==
  \A i \in Events("codegen") : HasOutDir(i) =>
    LET ext == ExtensionNamed(log[i].ext)
        writes == ext.codegen.writes
    IN /\ Len(log) >= i + 2 * Len(writes)
       /\ \A k \in 1..Len(writes) :
            LET dest == ClaimedDest(ext, writes[k].filename)
                made == log[i + 2 * k - 1]
                wrote == log[i + 2 * k]
            IN /\ made.op = "mkdirp"
               /\ made.dir = PathDirname(dest)
               /\ wrote.op = "writeFileSync"
               /\ wrote.dest = dest
               /\ wrote.source = writes[k].source
               /\ PathDirname(dest) \in fsys.dirs
               /\ dest \in DOMAIN fsys.files
               /\ (\A j \in Events("writeFileSync") : (j > i + 2 * k) => log[j].dest # dest)
                    => fsys.files[dest] = writes[k].source

\* Extension A wrote under its genDir and extension C under the engine's outDir.
C10_Witness ==
  /\ options.outDir # Undefined
  /\ \E i, j \in Events("writeFileSync") :
       /\ log[i].ext = "A"
       /\ log[i].dest = <<"base", "gen", "sub", "g.ts">>
       /\ log[j].ext = "C"
       /\ log[j].dest = <<"h.ts">>

\* ------------------------------------------------------------------ C11

\* The codegen call during which the event at position i of the log happened.
CodegenCallOf(i) == Max({c \in Events("codegen") : c < i})

\* The last content stored at dest.
LastStored(dest) == log[Max({i \in Events("writeFileSync") : log[i].dest = dest})].source

\* C11: a generated file bypasses the postProcess chain: what a codegen write stores
\* is exactly the content the hook passed, also with postProcess-capable extensions
\* configured; no postProcess hook and no host write happens for it.
C11_CodegenBypassesPostProcess ==
  /\ \A i \in Events("writeFileSync") :
       LET ext == ExtensionNamed(log[i].ext)
           c == CodegenCallOf(i)
       IN /\ log[c].ext = log[i].ext
          /\ \E k \in 1..Len(ext.codegen.writes) :
               /\ ext.codegen.writes[k].filename = log[i].filename
               /\ ext.codegen.writes[k].source = log[i].source
          /\ \A j \in c..i : log[j].op \in {"codegen", "mkdirp", "writeFileSync"}
  /\ \A i \in Events("postProcess") \cup Events("delegate.writeFile") :
       /\ Events("emit") # {}
       /\ \A c \in Events("codegen") : c < i
  /\ \A dest \in DOMAIN fsys.files :
       /\ \E i \in Events("writeFileSync") : log[i].dest = dest
       /\ fsys.files[dest] = LastStored(dest)

\* Extension B, whose postProcess hook would turn "xy" into "yx", generated "xy", and
\* "xy" is what the file holds after the outputs have been emitted through that hook.
C11_Witness ==
  /\ pc = "exited"
  /\ \E p \in Events("postProcess") : log[p].ext = "B"
  /\ \E i \in Events("writeFileSync") :
       /\ log[i].ext = "B"
       /\ log[i].source = <<"x", "y">>
       /\ PostProcessAll(extensions, log[i].filename, log[i].source) = <<"y", "x">>
       /\ fsys.files[log[i].dest] = <<"x", "y">>

\* ------------------------------------------------------------------ C12

\* C12: with an empty extension list the host is the base host: a source retrieval
\* returns what the base host returns for the same file name, declaration-only or
\* not, existing or missing, and an output write makes the same base write and
\* nothing else.
C12_NoExtensionFidelity ==
  (pc = "host" /\ extensions = <<>> /\ Events("call") # {}) =>
    /\ LastCall.method = "getSourceFile" =>
         lastResult = DelegateGetSourceFile(LastCall.fileName)
    /\ LastCall.method = "writeFile" =>
         LastCallDid = <<DelegateWriteFile(LastCall.fileName, LastCall.content,
                                          LastCall.writeByteOrderMark, LastCall.onError)>>

\* ------------------------------------------------------------------ C13

\* The last thing that happened is a module-name resolution.
ResolvedNames ==
  /\ pc = "host"
  /\ Events("call") # {}
  /\ LastCall.method = "resolveModuleNames"

\* The engine resolves the specifier.
Resolvable(moduleName, containingFile) ==
  ResolveModuleName(moduleName, containingFile).resolvedModule # Undefined

\* The engine's resolutions of the resolvable specifiers, in request order.
RECURSIVE ResolutionsInOrder(_, _)
ResolutionsInOrder(moduleNames, containingFile) ==
  IF moduleNames = <<>> THEN <<>>
  ELSE (IF Resolvable(Head(moduleNames), containingFile)
        THEN <<ResolveModuleName(Head(moduleNames), containingFile).resolvedModule>>
        ELSE <<>>)
       \o ResolutionsInOrder(Tail(moduleNames), containingFile)

\* C13: a module-name resolution returns the engine's resolutions of the resolvable
\* specifiers in request order and drops the unresolved ones: the result is as long
\* as there are resolvable specifiers, and strictly shorter than the request when a
\* specifier is unresolvable.
C13_ResolveDropsUnresolved ==
  ResolvedNames =>
    LET names == LastCall.moduleNames
        from == LastCall.containingFile
        resolvable == {k \in 1..Len(names) : Resolvable(names[k], from)}
    IN /\ lastResult = ResolutionsInOrder(names, from)
       /\ Len(lastResult) = Cardinality(resolvable)
       /\ (resolvable # 1..Len(names)) => Len(lastResult) < Len(names)

\* "none" is dropped from the request "none", "./b": the result holds b.ts alone.
C13_Witness ==
  /\ ResolvedNames
  /\ LastCall.moduleNames = <<"none", "./b">>
  /\ lastResult = <<[resolvedFileName |-> <<"b", "ts">>]>>

\* ------------------------------------------------------------------ C14

\* The specifiers processed so far that the engine resolved: <<i, k>> is specifier k
\* of the resolution called at position i of the log.
ResolvedSteps ==
  {q \in UNION {{<<i, k>> : k \in 1..Len(log[i].moduleNames)} :
                 i \in {c \in Events("call") : log[c].method = "resolveModuleNames"}} :
     Resolvable(log[q[1]].moduleNames[q[2]], log[q[1]].containingFile)}

StepName(q) == log[q[1]].moduleNames[q[2]]

StepPath(q) ==
  ResolveModuleName(StepName(q), log[q[1]].containingFile).resolvedModule.resolvedFileName

\* Step q was processed after step r.
StepAfter(q, r) == q[1] > r[1] \/ (q[1] = r[1] /\ q[2] > r[2])

\* C14: the reverse map holds, for every resolved path, the specifier processed most
\* recently that resolved to it, across calls and within a call; a path no specifier
\* resolved to has no entry, an unresolved specifier changes nothing, and no entry
\* is ever removed.
C14_ReverseMapLastWins ==
  /\ DOMAIN reverseMap = {StepPath(q) : q \in ResolvedSteps}
  /\ \A q \in ResolvedSteps :
       (\A r \in ResolvedSteps : StepPath(r) = StepPath(q) => ~StepAfter(r, q))
         => reverseMap[StepPath(q)] = StepName(q)

\* a.ts was reached as "a" last in the first call and as "./a" last in the second,
\* and b.ts never: the entry of a.ts is "./a".
C14_Witness ==
  /\ pc = "host"
  /\ Len(log) = 2
  /\ log[1].op = "call" /\ log[1].method = "resolveModuleNames"
  /\ log[1].moduleNames = <<"./a", "a">>
  /\ log[2].op = "call" /\ log[2].method = "resolveModuleNames"
  /\ log[2].moduleNames = <<"a", "./a">>
  /\ DOMAIN reverseMap = {<<"a", "ts">>}
  /\ reverseMap[<<"a", "ts">>] = "./a"

\* ------------------------------------------------------------------ C15

\* The warnings the loader printed, in order.
LoadWarnings ==
  SelectSeq(log, LAMBDA e : e.op = "console.error" /\ e.tag = "Unable to load")

\* C15: the loader never aborts: the list it returns holds exactly the modules of
\* the block that loaded, in key order, each with its configuration bag, its
\* identifier as name and its load location; a module that fails to load is left
\* out whole and warned about, and loading goes on with the next key; with no
\* extensions block the list is empty.
C15_LoadNeverAborts ==
  \A i \in Events("load") :
    LET cfg == log[i].extensionsCfg
        keys == IF cfg = Undefined THEN <<>> ELSE cfg.keys
        loaded == SelectSeq(keys, Installed)
        failing == SelectSeq(keys, LAMBDA k : ~Installed(k))
    IN /\ Len(extensions) = Len(loaded)
       /\ \A n \in 1..Len(loaded) :
            /\ extensions[n].name = loaded[n]
            /\ extensions[n].options = ConfigOptions(loaded[n])
            /\ extensions[n].loadPath = <<"node_modules", loaded[n]>>
            /\ \A point \in {"preProcess", "postProcess", "codegen", "check"} :
                 extensions[n][point] = RequireDefault(loaded[n])[point]
       /\ Len(LoadWarnings) = Len(failing)
       /\ \A n \in 1..Len(failing) : LoadWarnings[n].text = <<Line("Warning", failing[n])>>
       /\ pc # "thrown" \/ Events("throw") # {}

\* The block names M, which cannot be loaded, before A: the list holds A alone, with
\* its genDir, and the run went on past the loader.
C15_Witness ==
  /\ \E i \in Events("load") :
       /\ log[i].extensionsCfg # Undefined
       /\ log[i].extensionsCfg.keys = <<"M", "A">>
  /\ Len(extensions) = 1
  /\ extensions[1].name = "A"
  /\ extensions[1].options.genDir = <<"gen">>
  /\ Len(LoadWarnings) = 1
  /\ Events("codegen") # {}

\* ------------------------------------------------------------------ C16

\* What the catch of the entry point does with an error.
CaughtAtEntry ==
  <<[op |-> "console.error", tag |-> "FATAL", text |-> <<Line("Exception", "e.message")>>],
    [op |-> "process.exit", code |-> 1]>>

\* C16: an error raised by a hook (preProcess, postProcess, codegen or check) in a
\* run started from the command line is caught neither by the host nor by main: no
\* step of the pipeline follows it, only the entry point's report and the end of the
\* process with code 1.
C16_HookErrorEndsRun ==
  \A t \in Events("throw") :
    LET after == SubSeq(log, t + 1, Len(log))
    IN /\ log[t].from \in {"preProcess", "postProcess", "codegen", "check"}
       /\ pc \in {"thrown", "exited"}
       /\ pc = "thrown" => after = <<>> /\ exitCode = -1
       /\ pc = "exited" => after = CaughtAtEntry /\ exitCode = 1
       /\ mainResult = -1

\* Extension P raised in its postProcess hook while the first unit was emitted: no
\* emit result, no second emit, exit code 1.
C16_Witness ==
  /\ pc = "exited"
  /\ exitCode = 1
  /\ Len(units) = 2
  /\ Cardinality(Events("emit")) = 1
  /\ \E t \in Events("throw") : log[t].from = "postProcess" /\ log[t].ext = "P"

\* ------------------------------------------------------------------ C17

\* The operations the pass-through is stated for.
PassThroughOperations ==
  {"getSourceFile", "fileExists", "directoryExists", "getDefaultLibFileName",
   "getDefaultLibLocation", "getCurrentDirectory", "getCanonicalFileName",
   "useCaseSensitiveFileNames", "getNewLine", "trace", "readFile", "writeFile",
   "resolveModuleNames"}

\* C17: pass-through: every operation of the delegating host, for every argument,
\* invokes the same operation of the base host exactly once with the same arguments
\* and returns its result, and does nothing else.
C17_PassThrough ==
  (pc = "delegating" /\ Events("call") # {} /\ LastCall.method \in PassThroughOperations) =>
    /\ LastCallDid = <<[op |-> "delegate", method |-> LastCall.method,
                        args |-> LastCall.args]>>
    /\ lastResult.kind = "returned"
    /\ extensions = <<>> /\ hostDiagnostics = <<>> /\ reverseMap = EmptyMap

\* ------------------------------------------------------------------ C18

\* C18: a source retrieval of a non-declaration unit re-parses exactly the content
\* the last preProcess-capable extension returned: every preProcess call receives
\* the unit the base host parsed, never the output of the extension before it, and
\* what the earlier extensions returned is discarded; with no preProcess-capable
\* extension the content re-parsed is the raw text read through the host.
C18_LastPreProcessWins ==
  RetrievedSource =>
    LET fileName == LastCall.fileName
        did == LastCallDid
        hooks == SelectSeq(did, LAMBDA e : e.op = "preProcess")
        parses == SelectSeq(did, LAMBDA e : e.op = "createSourceFile")
        capable == FilterEnabled(extensions, "preProcess")
        base == DelegateGetSourceFile(fileName)
    IN /\ Len(hooks) = Len(capable)
       /\ \A i \in 1..Len(hooks) :
            /\ hooks[i].ext = capable[i].name
            /\ hooks[i].sourceFile = base
       /\ Len(parses) = 1
       /\ did[Len(did)] = parses[1]
       /\ parses[1].content =
            (IF capable = <<>> THEN DelegateReadFile(fileName)
             ELSE PreProcessHook(capable[Len(capable)], hostProgram, base).content)
       /\ lastResult = CreateSourceFile(fileName, parses[1].content, TRUE)

\* Extensions S and B retrieved a.ts: the unit returned reads "xyB"; S's "xyS" is gone.
C18_Witness ==
  /\ RetrievedSource
  /\ Len(extensions) = 2
  /\ extensions[1].name = "S" /\ extensions[2].name = "B"
  /\ LastCall.fileName = <<"a", "ts">>
  /\ lastResult.text = <<"x", "y", "B">>

\* ------------------------------------------------------------------ C19

\* The file name ends in .d.ts.
EndsInDts(fileName) ==
  Len(fileName) >= 3 /\ SubSeq(fileName, Len(fileName) - 1, Len(fileName)) = <<"d", "ts">>

\* The last thing that happened is a source retrieval of a declaration-only unit.
RetrievedDeclarations ==
  /\ pc = "host"
  /\ Events("call") # {}
  /\ LastCall.method = "getSourceFile"
  /\ EndsInDts(LastCall.fileName)

\* C19: a source retrieval of a declaration-only unit (file name ending in .d.ts)
\* returns the base host's result unmodified and leaves the rest of the host as it
\* was: it asks the base host for the unit and does nothing else (no preProcess hook,
\* no raw read, no re-parse), and the diagnostics accumulator and the reverse module
\* map are unchanged.
C19_DeclarationsUntouched ==
  [][(calls' # calls /\ RetrievedDeclarations') =>
       /\ lastResult' = DelegateGetSourceFile(LastCall'.fileName)
       /\ LastCallDid' = <<[op |-> "delegate.getSourceFile",
                            fileName |-> LastCall'.fileName]>>
       /\ LastCallAt' = Len(log) + 1
       /\ hostDiagnostics' = hostDiagnostics
       /\ reverseMap' = reverseMap
       /\ extensions' = extensions
       /\ hostProgram' = hostProgram]_vars

\* With extension A, a.ts and then the missing gone.d.ts were retrieved: the second
\* retrieval returned the base host's undefined and left A's one diagnostic alone.
C19_Witness ==
  /\ RetrievedDeclarations
  /\ LastCall.fileName = <<"gone", "d", "ts">>
  /\ lastResult = Undefined
  /\ Len(extensions) = 1 /\ extensions[1].name = "A"
  /\ Len(hostDiagnostics) = 1
  /\ Cardinality(Events("preProcess")) = 1

\* ------------------------------------------------------------------ C20

\* The Program was built with preProcess diagnostics in the host's accumulator and
\* the engine had no option diagnostic.
PendingAfterBuild ==
  /\ hostDiagnostics # <<>>
  /\ \E o \in Asked("options") : log[o].value = <<>>

\* The reports of the host's preProcess diagnostics.
HostDiagnosticsReports ==
  {r \in Events("console.error") :
     log[r].tag = "FATAL" /\ log[r].text = FormatDiagnostics(hostDiagnostics)}

\* The files extension ext stored.
StoredBy(ext) == {w \in Events("writeFileSync") : log[w].ext = ext.name}

\* C20: preProcess diagnostics accumulated while the Program is built are not
\* validated before the codegen phase is over: when the option diagnostics are empty,
\* every codegen-capable extension's hook runs to completion and its files are
\* written although the accumulator is non-empty, and the abort for those diagnostics
\* comes only after the global diagnostics and the pre-emission diagnostics of every
\* unit have been checked.
C20_HostDiagnosticsCheckedAfterCodegen ==
  PendingAfterBuild =>
    LET capable == FilterEnabled(extensions, "codegen")
        hooks == SelectSeq(log, LAMBDA e : e.op = "codegen")
    IN /\ (Events("throw") = {} /\ pc # "codegen") =>
            /\ Len(hooks) = Len(capable)
            /\ \A k \in 1..Len(capable) :
                 /\ hooks[k].ext = capable[k].name
                 /\ Cardinality(StoredBy(capable[k])) = Len(capable[k].codegen.writes)
                 /\ \A w \in StoredBy(capable[k]) : log[w].dest \in DOMAIN fsys.files
       /\ \A r \in HostDiagnosticsReports :
            /\ Len(hooks) = Len(capable)
            /\ \A c \in Events("codegen") : c < r
            /\ \E g \in Asked("global") : g < r /\ log[g].value = <<>>
            /\ Cardinality({u \in Asked("unit") : u < r}) = Len(units)
            /\ log[r + 1] = [op |-> "process.exit", code |-> 1]
       /\ (pc = "exited" /\ Asked("global") = {}) => Events("throw") # {}

\* Extensions A and B: A's preProcess diagnostic was pending when both generated
\* their files, and the run was ended for it after the per-unit diagnostics.
C20_Witness ==
  /\ pc = "exited"
  /\ PendingAfterBuild
  /\ HostDiagnosticsReports # {}
  /\ Len(extensions) = 2
  /\ extensions[1].name = "A" /\ extensions[2].name = "B"
  /\ StoredBy(extensions[1]) # {}
  /\ StoredBy(extensions[2]) # {}
  /\ Len(units) = 2

====
